---- MODULE Spec2Model ----
(***************************************************************************)
(* Model of the PCD catalog front end: carros.js (discount catalog         *)
(* listing), imoveis.js (single-price listing), the plain listing script   *)
(* and the detail page script.                                             *)
(*                                                                         *)
(* Strings are sequences of one-character strings.  JavaScript values are  *)
(* records [t, nan, m, e, s]: t is the type tag, a number is the decimal   *)
(* m / 10^e (kept normalised), nan marks NaN, s is the text of a string.   *)
(* Every price text of the model has far fewer than 15 significant digits, *)
(* so distinct decimals are distinct doubles and the sign of a difference  *)
(* of two parsed prices is the sign of the exact difference.               *)
(***************************************************************************)
EXTENDS Integers, Sequences, FiniteSets, TLC

VARIABLES
  fn,          \* pure-function runs: the function that was applied ("none" before)
  input,       \* pure-function runs: its argument
  output,      \* pure-function runs: its result
  page,        \* the script the page runs: "carros", "imoveis", "lista", "detalhe"
  pc,          \* where the page's promise chain stands
  dom,         \* which elements the document has: [sortSelect, container]
  selectValue, \* the value of the #sort-select control
  urlId,       \* the "id" query parameter (null when missing)
  net,         \* how the fetch settled: "pending", "error" or "response"
  res,         \* the response: [ok, wellFormed, value]
  imoveisData, \* the page-held catalog
  writes,      \* number of assignments to imoveisData
  fetches,     \* number of fetch calls
  listener,    \* whether the "change" handler is registered on #sort-select
  container,   \* the nodes of the list container
  detail,      \* the detail page: [message, fields]
  log,         \* the console.error diagnostics emitted
  uncaught,    \* whether an exception escaped an event handler
  changed      \* whether a "change" event of #sort-select has been handled

funvars == <<fn, input, output>>

pagevars == <<page, pc, dom, selectValue, urlId, net, res, imoveisData, writes,
              fetches, listener, container, detail, log, uncaught, changed>>

vars == <<fn, input, output, page, pc, dom, selectValue, urlId, net, res,
          imoveisData, writes, fetches, listener, container, detail, log, uncaught,
          changed>>

(* ------------------------------ bounds --------------------------------- *)

MaxLen == 4

(* ------------------------- JavaScript values --------------------------- *)

RECURSIVE Pow10(_)
Pow10(n) == IF n = 0 THEN 1 ELSE 10 * Pow10(n - 1)

RECURSIVE Normalise(_, _)
Normalise(m, e) ==
  IF m = 0 THEN <<0, 0>>
  ELSE IF e > 0 /\ m % 10 = 0 THEN Normalise(m \div 10, e - 1)
  ELSE <<m, e>>

JSNumber(m, e) ==
  LET n == Normalise(m, e)
  IN  [t |-> "number", nan |-> FALSE, m |-> n[1], e |-> n[2], s |-> <<>>]

JSNaN == [t |-> "number", nan |-> TRUE, m |-> 0, e |-> 0, s |-> <<>>]

JSString(str) == [t |-> "string", nan |-> FALSE, m |-> 0, e |-> 0, s |-> str]

Undefined == [t |-> "undefined", nan |-> FALSE, m |-> 0, e |-> 0, s |-> <<>>]

TypeError == [t |-> "TypeError", nan |-> FALSE, m |-> 0, e |-> 0, s |-> <<>>]

Null == [t |-> "null", nan |-> FALSE, m |-> 0, e |-> 0, s |-> <<>>]

NoValue == [t |-> "none", nan |-> FALSE, m |-> 0, e |-> 0, s |-> <<>>]

Zero == JSNumber(0, 0)

\* ToBoolean: undefined, "", NaN and 0 are falsy.
Truthy(v) ==
  CASE v.t = "undefined" -> FALSE
    [] v.t = "string"    -> v.s # <<>>
    [] v.t = "number"    -> ~v.nan /\ v.m # 0
    [] OTHER             -> FALSE

Max(a, b) == IF a >= b THEN a ELSE b

\* a - b on numbers; NaN is contagious.
Minus(a, b) ==
  IF a.nan \/ b.nan THEN JSNaN
  ELSE LET e == Max(a.e, b.e)
       IN  JSNumber(a.m * Pow10(e - a.e) - b.m * Pow10(e - b.e), e)

\* a > 0, a < 0, a = 0 on numbers; every comparison with NaN is false.
IsPositive(a) == ~a.nan /\ a.m > 0
IsNegative(a) == ~a.nan /\ a.m < 0
IsZero(a) == ~a.nan /\ a.m = 0

(* ------------------------------ strings -------------------------------- *)

Digits == <<"0", "1", "2", "3", "4", "5", "6", "7", "8", "9">>

IsDigit(c) == \E i \in 1..10 : Digits[i] = c

DigitVal(c) == (CHOOSE i \in 1..10 : Digits[i] = c) - 1

IsSpace(c) == c = " "

\* s.replace(/c/g, ""): remove every occurrence of the character c.
RemoveAll(s, c) == SelectSeq(s, LAMBDA x : x # c)

\* (s.match(/c/g) || []).length
Count(s, c) == Len(SelectSeq(s, LAMBDA x : x = c))

\* s.lastIndexOf(c), 0-based, -1 when c does not occur.
LastIndexOf(s, c) ==
  IF \E i \in 1..Len(s) : s[i] = c
  THEN (CHOOSE i \in 1..Len(s) : s[i] = c /\ \A j \in (i + 1)..Len(s) : s[j] # c) - 1
  ELSE -1

\* s.replace(pat, rep) with a string pattern: only the first occurrence.
ReplaceFirst(s, pat, rep) ==
  LET n == Len(pat)
      Hit(i) == i + n - 1 <= Len(s) /\ SubSeq(s, i, i + n - 1) = pat
  IN  IF \E i \in 1..Len(s) : Hit(i)
      THEN LET i == CHOOSE k \in 1..Len(s) : Hit(k) /\ \A j \in 1..(k - 1) : ~Hit(j)
           IN  SubSeq(s, 1, i - 1) \o rep \o SubSeq(s, i + n, Len(s))
      ELSE s

RECURSIVE TrimStart(_)
TrimStart(s) == IF s # <<>> /\ IsSpace(Head(s)) THEN TrimStart(Tail(s)) ELSE s

RECURSIVE TrimEnd(_)
TrimEnd(s) ==
  IF s # <<>> /\ IsSpace(s[Len(s)]) THEN TrimEnd(SubSeq(s, 1, Len(s) - 1)) ELSE s

Trim(s) == TrimEnd(TrimStart(s))

\* The longest prefix of s made of digits.
RECURSIVE DigitPrefix(_)
DigitPrefix(s) ==
  IF s # <<>> /\ IsDigit(Head(s)) THEN <<Head(s)>> \o DigitPrefix(Tail(s)) ELSE <<>>

RECURSIVE DigitsValue(_)
DigitsValue(ds) ==
  IF ds = <<>> THEN 0
  ELSE DigitsValue(SubSeq(ds, 1, Len(ds) - 1)) * 10 + DigitVal(ds[Len(ds)])

\* parseFloat(s): skip leading white space, read an optional sign, digits,
\* an optional "." and digits; NaN when no digit was read.  The texts of the
\* model hold no letter "e", "E" or "I", so exponents and "Infinity" do not
\* arise.
parseFloat(s) ==
  LET t    == TrimStart(s)
      neg  == t # <<>> /\ Head(t) = "-"
      sgn  == t # <<>> /\ Head(t) \in {"-", "+"}
      u    == IF sgn THEN Tail(t) ELSE t
      ip   == DigitPrefix(u)
      r    == SubSeq(u, Len(ip) + 1, Len(u))
      fp   == IF r # <<>> /\ Head(r) = "." THEN DigitPrefix(Tail(r)) ELSE <<>>
      mag  == DigitsValue(ip \o fp)
  IN  IF ip = <<>> /\ fp = <<>> THEN JSNaN
      ELSE JSNumber(IF neg THEN -mag ELSE mag, Len(fp))

(* --------------------------- CurrencyParser ---------------------------- *)

\* cleanAndParseValue with replace(".", "") in place of replace(/\./g, ""):
\* only the first thousands separator is dropped.
cleanAndParseValueFirstDotOnly(valorString) ==
  IF ~Truthy(valorString) THEN Zero
  ELSE IF valorString.t # "string" THEN TypeError
  ELSE
    LET cleaned0   == Trim(SelectSeq(valorString.s,
                                     LAMBDA c : IsDigit(c) \/ c \in {".", ","}))
        commaCount == Count(cleaned0, ",")
        dotCount   == Count(cleaned0, ".")
        cleaned    ==
          IF commaCount > 0 /\ dotCount > 0
          THEN IF LastIndexOf(cleaned0, ",") > LastIndexOf(cleaned0, ".")
               THEN ReplaceFirst(ReplaceFirst(cleaned0, <<".">>, <<>>), <<",">>, <<".">>)
               ELSE RemoveAll(cleaned0, ",")
          ELSE IF commaCount = 1 /\ dotCount = 0
               THEN ReplaceFirst(cleaned0, <<",">>, <<".">>)
               ELSE cleaned0
        parsedValue == parseFloat(cleaned)
    IN  IF parsedValue.nan THEN Zero ELSE parsedValue

\* carros.js cleanAndParseValue
cleanAndParseValue(valorString) ==
  IF ~Truthy(valorString) THEN Zero
  ELSE IF valorString.t # "string" THEN TypeError
  ELSE
    LET cleaned0   == Trim(SelectSeq(valorString.s,
                                     LAMBDA c : IsDigit(c) \/ c \in {".", ","}))
        commaCount == Count(cleaned0, ",")
        dotCount   == Count(cleaned0, ".")
        cleaned    ==
          IF commaCount > 0 /\ dotCount > 0
          THEN IF LastIndexOf(cleaned0, ",") > LastIndexOf(cleaned0, ".")
               THEN ReplaceFirst(RemoveAll(cleaned0, "."), <<",">>, <<".">>)
               ELSE RemoveAll(cleaned0, ",")
          ELSE IF commaCount = 1 /\ dotCount = 0
               THEN ReplaceFirst(cleaned0, <<",">>, <<".">>)
               ELSE cleaned0
        parsedValue == parseFloat(cleaned)
    IN  IF parsedValue.nan THEN Zero ELSE parsedValue

\* imoveis.js cleanAndParseValue
imoveisCleanAndParseValue(valorString) ==
  IF valorString.t # "string" THEN TypeError
  ELSE parseFloat(Trim(ReplaceFirst(RemoveAll(ReplaceFirst(valorString.s,
                                                           <<"R", "$">>, <<>>),
                                              "."),
                                    <<",">>, <<".">>)))

(* -------------------------- DiscountCalculator ------------------------- *)

Str_R0_00 == <<"R", "$", " ", "0", ",", "0", "0">>

\* a || b
OrElse(a, b) == IF Truthy(a) THEN a ELSE b

\* calculateDesconto with the operands of the subtraction exchanged.
calculateDescontoSwapped(carro) ==
  LET precoPublico == cleanAndParseValue(OrElse(carro.preco_publico, JSString(Str_R0_00)))
      precoPCD     == cleanAndParseValue(OrElse(carro.preco_pcd, JSString(Str_R0_00)))
  IN  IF precoPublico.t = "TypeError" \/ precoPCD.t = "TypeError" THEN TypeError
      ELSE IF precoPublico.t = "number" /\ precoPCD.t = "number"
           THEN Minus(precoPCD, precoPublico)
           ELSE Zero

\* carros.js calculateDesconto
calculateDesconto(carro) ==
  LET precoPublico == cleanAndParseValue(OrElse(carro.preco_publico, JSString(Str_R0_00)))
      precoPCD     == cleanAndParseValue(OrElse(carro.preco_pcd, JSString(Str_R0_00)))
  IN  IF precoPublico.t = "TypeError" \/ precoPCD.t = "TypeError" THEN TypeError
      ELSE IF precoPublico.t = "number" /\ precoPCD.t = "number"
           THEN Minus(precoPublico, precoPCD)
           ELSE Zero

RECURSIVE IntToDigits(_)
IntToDigits(n) ==
  IF n < 10 THEN <<Digits[n + 1]>> ELSE IntToDigits(n \div 10) \o <<Digits[(n % 10) + 1]>>

Abs(n) == IF n < 0 THEN -n ELSE n

\* Long division: <<q, r>> with q = floor(a * 10^k / b) and r the remainder
\* left (b > 0, a >= 0).
RECURSIVE ScaledDiv(_, _, _)
ScaledDiv(a, b, k) ==
  IF k = 0 THEN <<a \div b, a % b>>
  ELSE LET p == ScaledDiv(a, b, k - 1)
       IN  <<p[1] * 10 + (p[2] * 10) \div b, (p[2] * 10) % b>>

\* ((a / b) * 100) in hundredths: the integer nearest to |a| * 10000 / b
\* (b > 0), the larger one on a tie, as Number.prototype.toFixed picks it.
\* The quotient is taken exactly; a double quotient can fall on the other
\* side of a tie.
PercentHundredths(a, b) ==
  LET e == Max(a.e, b.e)
      d == ScaledDiv(Abs(a.m) * Pow10(e - a.e), b.m * Pow10(e - b.e), 4)
  IN  d[1] + (IF 2 * d[2] >= b.m * Pow10(e - b.e) THEN 1 ELSE 0)

\* ((a / b) * 100).toFixed(2): sign, integer digits, ".", two digits.
PercentToFixed2(a, b) ==
  LET n  == PercentHundredths(a, b)
      ds == IntToDigits(n)
      pd == IF Len(ds) < 3 THEN SubSeq(<<"0", "0">>, 1, 3 - Len(ds)) \o ds ELSE ds
  IN  (IF a.m < 0 THEN <<"-">> ELSE <<>>)
        \o SubSeq(pd, 1, Len(pd) - 2) \o <<".">> \o SubSeq(pd, Len(pd) - 1, Len(pd))

\* carros.js calculateDescontoPercentage
calculateDescontoPercentage(carro) ==
  LET desconto     == calculateDesconto(carro)
      precoPublico == cleanAndParseValue(OrElse(carro.preco_publico, JSString(Str_R0_00)))
  IN  IF desconto.t = "TypeError" THEN TypeError
      ELSE IF IsPositive(precoPublico)
           THEN JSString(PercentToFixed2(desconto, precoPublico))
           ELSE Zero

(* ----------------------------- CatalogSorter -------------------------- *)

\* Collation weights <<primary, secondary, tertiary>> of the letters that the
\* brand names of the model use.  "A'" stands for the letter A with an acute
\* accent: under the pt-BR collation it differs from "A" at the secondary
\* level only, and upper case differs from lower case at the tertiary level.
Weights(c) ==
  CASE c = "a"  -> <<1, 0, 0>>
    [] c = "A"  -> <<1, 0, 1>>
    [] c = "A'" -> <<1, 1, 1>>
    [] c = "d"  -> <<4, 0, 0>>
    [] c = "e"  -> <<5, 0, 0>>
    [] c = "f"  -> <<6, 0, 0>>
    [] c = "i"  -> <<9, 0, 0>>
    [] c = "l"  -> <<12, 0, 0>>
    [] c = "m"  -> <<13, 0, 0>>
    [] c = "n"  -> <<14, 0, 0>>
    [] c = "o"  -> <<15, 0, 0>>
    [] c = "t"  -> <<20, 0, 0>>
    [] c = "u"  -> <<21, 0, 0>>
    [] c = "Z"  -> <<26, 0, 1>>
    [] OTHER    -> <<0, 0, 0>>

\* Lexicographic comparison of two sequences of integers: -1, 0 or 1.
RECURSIVE LexCompare(_, _)
LexCompare(x, y) ==
  IF x = <<>> /\ y = <<>> THEN 0
  ELSE IF x = <<>> THEN -1
  ELSE IF y = <<>> THEN 1
  ELSE IF Head(x) < Head(y) THEN -1
  ELSE IF Head(x) > Head(y) THEN 1
  ELSE LexCompare(Tail(x), Tail(y))

Level(str, k) == [i \in 1..Len(str) |-> Weights(str[i])[k]]

\* ToString of the argument of localeCompare.
ToStringValue(v) ==
  IF v.t = "undefined" THEN <<"u", "n", "d", "e", "f", "i", "n", "e", "d">>
  ELSE IF v.t = "null" THEN <<"n", "u", "l", "l">>
  ELSE v.s

\* a.localeCompare(b, "pt-BR"): a TypeError when a is undefined or null, else the
\* first level at which the two texts differ decides.
localeCompare(a, b) ==
  IF a.t # "string" THEN TypeError
  ELSE LET x  == a.s
           y  == ToStringValue(b)
           c1 == LexCompare(Level(x, 1), Level(y, 1))
           c2 == LexCompare(Level(x, 2), Level(y, 2))
           c3 == LexCompare(Level(x, 3), Level(y, 3))
       IN  JSNumber(IF c1 # 0 THEN c1 ELSE IF c2 # 0 THEN c2 ELSE c3, 0)

\* a - b where either operand may be a thrown TypeError.
MinusOrThrow(a, b) ==
  IF a.t = "TypeError" \/ b.t = "TypeError" THEN TypeError ELSE Minus(a, b)

\* carros.js sortImoveis, comparator of "valor_asc"
CompareValorAsc(a, b) ==
  MinusOrThrow(cleanAndParseValue(a.preco_pcd), cleanAndParseValue(b.preco_pcd))

\* imoveis.js sortImoveis, comparator of "valor_asc"
imoveisCompareValorAsc(a, b) ==
  LET valorA == imoveisCleanAndParseValue(a.valor)
      valorB == imoveisCleanAndParseValue(b.valor)
  IN  MinusOrThrow(valorA, valorB)

\* sortImoveis, comparator of "marca_asc" (the same in both scripts)
CompareMarcaAsc(a, b) == localeCompare(a.marca, b.marca)

\* The "desconto_desc" comparator with the operands exchanged: ascending.
CompareDescontoAscending(a, b) == MinusOrThrow(calculateDesconto(a), calculateDesconto(b))

\* carros.js sortImoveis, comparator of "desconto_desc"
CompareDescontoDesc(a, b) == MinusOrThrow(calculateDesconto(b), calculateDesconto(a))

\* The sign Array.prototype.sort takes from a comparator result; NaN is +0.
Sign(v) == IF v.nan THEN 0 ELSE IF v.m < 0 THEN -1 ELSE IF v.m > 0 THEN 1 ELSE 0

Identity(n) == [i \in 1..n |-> i]

IndexPermutations(n) ==
  {p \in [1..n -> 1..n] : \A i, j \in 1..n : p[i] = p[j] => i = j}

\* What Array.prototype.sort sees of one comparator call: 2 when the call
\* throws, else the sign of the result.
SignOrThrow(v) == IF v.t = "TypeError" THEN 2 ELSE Sign(v)

\* A consistent comparator, as ECMAScript defines it, on the signs V[i][j].
ConsistentComparator(n, V) ==
  /\ \A a \in 1..n : V[a][a] = 0
  /\ \A a, b \in 1..n : V[a][b] = 0 => V[b][a] = 0
  /\ \A a, b, c \in 1..n :
       /\ (V[a][b] = 0 /\ V[b][c] = 0) => V[a][c] = 0
       /\ (V[a][b] < 0 /\ V[b][c] < 0) => V[a][c] < 0
       /\ (V[a][b] > 0 /\ V[b][c] > 0) => V[a][c] > 0

\* The stable order of the places 1..n under the signs V.
StableOrder(n, V) ==
  LET Insert(p, x) ==
        LET k == Cardinality({i \in 1..Len(p) : V[p[i]][x] <= 0})
        IN  SubSeq(p, 1, k) \o <<x>> \o SubSeq(p, k + 1, Len(p))
      Sorted[k \in 0..n] == IF k = 0 THEN <<>> ELSE Insert(Sorted[k - 1], k)
  IN  Sorted[n]

\* What a sort that ends without an exception can have seen of S: it made no
\* call that throws, so it cannot tell S from a comparator that answers the
\* throwing calls as the opposite call does (or, when both throw, in any way).
Completions(n, S) ==
  LET both == {q \in (1..n) \X (1..n) : q[1] < q[2] /\ S[q[1]][q[2]] = 2 /\ S[q[2]][q[1]] = 2}
  IN  {[i \in 1..n |-> [j \in 1..n |->
          IF S[i][j] # 2 THEN S[i][j]
          ELSE IF i = j THEN 0
          ELSE IF S[j][i] # 2 THEN -S[j][i]
          ELSE IF i < j THEN f[<<i, j>>] ELSE -f[<<j, i>>]]] : f \in [both -> {-1, 0, 1}]}

\* The outcomes of sorting n elements whose comparator calls give S[i][j] for
\* the elements at places i and j.  An outcome is [threw, perm]: perm[k] is the
\* place that the element at place k had before the call.
\*  - fewer than two elements: the comparator is never called;
\*  - a comparator call that throws ends the sort with that exception; every
\*    element takes part in a comparison, but which of the two arguments it is
\*    depends on the engine;
\*  - answers that fit a consistent comparator give its stable order (the
\*    sort is stable);
\*  - otherwise the order is implementation-defined: any permutation.
SortOutcomes(n, S) ==
  LET Throws(i, j) == S[i][j] = 2
      mayThrow  == \E i, j \in 1..n : i # j /\ Throws(i, j)
      mustThrow == \E i \in 1..n : \A j \in 1..n \ {i} : Throws(i, j) /\ Throws(j, i)
  IN  IF n < 2 THEN {[threw |-> FALSE, perm |-> Identity(n)]}
      ELSE (IF mayThrow THEN {[threw |-> TRUE, perm |-> Identity(n)]} ELSE {})
             \cup (IF mustThrow THEN {}
                   ELSE UNION {IF good # {}
                               THEN {[threw |-> FALSE, perm |-> StableOrder(n, V)] : V \in good}
                               ELSE {[threw |-> FALSE, perm |-> p] : p \in IndexPermutations(n)} :
                                 good \in {{V \in Completions(n, S) : ConsistentComparator(n, V)}}})

\* The comparator that a sortImoveis arm passes to Array.prototype.sort.
Comparefn(which, a, b) ==
  CASE which = "valor_asc"         -> CompareValorAsc(a, b)
    [] which = "imoveis.valor_asc" -> imoveisCompareValorAsc(a, b)
    [] which = "marca_asc"         -> CompareMarcaAsc(a, b)
    [] which = "desconto_desc"     -> CompareDescontoDesc(a, b)

\* Array.prototype.sort(comparefn) on an array of objects: the comparator is
\* pure, so its results on the pairs of elements decide the outcomes.
ArraySort(arr, which) ==
  LET n == Len(arr)
  IN  UNION {SortOutcomes(n, S) :
               S \in {[i \in 1..n |->
                         [j \in 1..n |-> SignOrThrow(Comparefn(which, arr[i], arr[j]))]]}}

Permute(arr, perm) == [k \in 1..Len(arr) |-> arr[perm[k]]]

\* What a call sortImoveis(data, sortOption) leaves behind: whether it threw,
\* the returned array ret (perm relates it to data), the contents of the
\* argument array after the call, and whether ret is the argument itself.
SortResult(data, o, same) ==
  [threw |-> o.threw, perm |-> o.perm,
   ret |-> IF o.threw THEN <<>> ELSE Permute(data, o.perm),
   data |-> data, same |-> same]

Unsorted(data) ==
  {SortResult(data, [threw |-> FALSE, perm |-> Identity(Len(data))], TRUE)}

\* sortImoveis sorting the argument array itself instead of a copy of it.
sortImoveisInPlace(data, sortOption) ==
  LET InPlace(os) ==
        {[threw |-> o.threw, perm |-> o.perm,
          ret |-> IF o.threw THEN <<>> ELSE Permute(data, o.perm),
          data |-> Permute(data, o.perm), same |-> TRUE] : o \in os}
  IN  CASE sortOption = "valor_asc"     -> InPlace(ArraySort(data, "valor_asc"))
        [] sortOption = "marca_asc"     -> InPlace(ArraySort(data, "marca_asc"))
        [] sortOption = "desconto_desc" -> InPlace(ArraySort(data, "desconto_desc"))
        [] OTHER                        -> Unsorted(data)

\* carros.js sortImoveis
sortImoveis(data, sortOption) ==
  LET Copy(os) == {SortResult(data, o, FALSE) : o \in os}
  IN  CASE sortOption = "valor_asc"     -> Copy(ArraySort(data, "valor_asc"))
        [] sortOption = "marca_asc"     -> Copy(ArraySort(data, "marca_asc"))
        [] sortOption = "desconto_desc" -> Copy(ArraySort(data, "desconto_desc"))
        [] OTHER                        -> Unsorted(data)

\* imoveis.js sortImoveis
imoveisSortImoveis(data, sortOption) ==
  LET Copy(os) == {SortResult(data, o, FALSE) : o \in os}
  IN  CASE sortOption = "valor_asc" -> Copy(ArraySort(data, "imoveis.valor_asc"))
        [] sortOption = "marca_asc" -> Copy(ArraySort(data, "marca_asc"))
        [] OTHER                    -> Unsorted(data)

(* ------------------------------ the pages ------------------------------ *)

NoResponse == [ok |-> FALSE, wellFormed |-> FALSE, value |-> <<>>]

NoDetail == [message |-> FALSE, fields |-> <<>>]

\* The state of a page before its DOMContentLoaded handler has run;
\* "let imoveisData = []".
PageStart(p, d, v, id) ==
  /\ page = p
  /\ pc = "start"
  /\ dom = d
  /\ selectValue = v
  /\ urlId = id
  /\ net = "pending"
  /\ res = NoResponse
  /\ imoveisData = <<>>
  /\ writes = 0
  /\ fetches = 0
  /\ listener = FALSE
  /\ container = <<>>
  /\ detail = NoDetail
  /\ log = {}
  /\ uncaught = FALSE
  /\ changed = FALSE

\* No page is running: the runs that apply one function to one argument.
NoPage == PageStart("none", [sortSelect |-> FALSE, container |-> FALSE], "default", Null)

(* ------------------- inputs of the currency parser --------------------- *)

Chars == {"0", "1", "5", ",", ".", "R", "$", " "}

Strings == UNION {[1..n -> Chars] : n \in 0..MaxLen}

Str_74_350_00 == <<"R", "$", " ", "7", "4", ".", "3", "5", "0", ",", "0", "0">>
Str_1_234_56 == <<"1", ",", "2", "3", "4", ".", "5", "6">>

ExampleStrings == {Str_74_350_00, Str_1_234_56, Str_R0_00}

\* A price field as the parser receives it: a string, or undefined when the
\* record has no such field.
ParseInputs == {JSString(s) : s \in Strings \cup ExampleStrings} \cup {Undefined}

ParseInit ==
  /\ NoPage
  /\ fn = "none"
  /\ input \in ParseInputs
  /\ output = NoValue

CallCleanAndParseValue ==
  /\ fn = "none"
  /\ fn' = "cleanAndParseValue"
  /\ output' = cleanAndParseValue(input)
  /\ UNCHANGED input
  /\ UNCHANGED pagevars

CallImoveisCleanAndParseValue ==
  /\ fn = "none"
  /\ fn' = "imoveisCleanAndParseValue"
  /\ output' = imoveisCleanAndParseValue(input)
  /\ UNCHANGED input
  /\ UNCHANGED pagevars

ParseNext == CallCleanAndParseValue \/ CallImoveisCleanAndParseValue

SpecParse == ParseInit /\ [][ParseNext]_vars

(* ------------------------------- C1 ------------------------------------ *)

IsFiniteNumber(v) == v.t = "number" /\ ~v.nan

\* C1: the currency parser is total: whatever string (empty, blank, symbols
\* only) or absent field it is given, in the discount catalog script and in
\* the single-price catalog script alike, it returns a finite number and
\* neither NaN nor an exception.
C1_ParseTotal ==
  fn \in {"cleanAndParseValue", "imoveisCleanAndParseValue"} => IsFiniteNumber(output)

\* The part of C1 that the discount catalog script does satisfy.
C1_CarrosParseTotal ==
  fn = "cleanAndParseValue" => IsFiniteNumber(output) /\ output.m >= 0

(* ------------------------------- C2 ------------------------------------ *)

Stripped(s) == SelectSeq(s, LAMBDA c : IsDigit(c) \/ c \in {".", ","})

HasBoth(s) == Count(Stripped(s), ",") > 0 /\ Count(Stripped(s), ".") > 0

\* Position of the first occurrence of c in s, Len(s) + 1 when there is none.
FirstPos(s, c) ==
  IF \E i \in 1..Len(s) : s[i] = c
  THEN CHOOSE i \in 1..Len(s) : s[i] = c /\ \A j \in 1..(i - 1) : s[j] # c
  ELSE Len(s) + 1

\* The number that the digits of s denote when dec is the decimal separator:
\* the digits before the first dec are the integer part, the digits between
\* it and the next dec (or the end) the fraction; 0 when there is no digit.
ReadDecimal(s, dec) ==
  LET p    == FirstPos(s, dec)
      ip   == SubSeq(s, 1, p - 1)
      rest == SubSeq(s, p + 1, Len(s))
      fp   == SubSeq(rest, 1, FirstPos(rest, dec) - 1)
  IN  JSNumber(DigitsValue(ip \o fp), Len(fp))

\* What C2 prescribes for a text holding both separators.
BothSeparatorsValue(s) ==
  LET t        == Stripped(s)
      lastOf(c) == CHOOSE i \in 1..Len(t) : t[i] = c /\ \A j \in (i + 1)..Len(t) : t[j] # c
      dec      == IF lastOf(",") > lastOf(".") THEN "," ELSE "."
      other    == IF dec = "," THEN "." ELSE ","
  IN  ReadDecimal(SelectSeq(t, LAMBDA c : c # other), dec)

\* C2: when the text, stripped of everything but digits, commas and periods,
\* holds a comma and a period, the kind whose last occurrence is rightmost
\* is the decimal separator, the other kind is dropped everywhere, and the
\* result is the number read with that decimal separator; "R$ 74.350,00"
\* gives 74350 and "1,234.56" gives 1234.56.
C2_LastSeparatorIsDecimal ==
  /\ (fn = "cleanAndParseValue" /\ input.t = "string" /\ HasBoth(input.s))
       => output = BothSeparatorsValue(input.s)
  /\ (fn = "cleanAndParseValue" /\ input = JSString(Str_74_350_00))
       => output = JSNumber(74350, 0)
  /\ (fn = "cleanAndParseValue" /\ input = JSString(Str_1_234_56))
       => output = JSNumber(123456, 2)

C2_Witness ==
  /\ fn = "cleanAndParseValue"
  /\ input = JSString(Str_74_350_00)
  /\ output = JSNumber(7435000, 2)

(* ------------------- inputs of the discount calculator ----------------- *)

MaxPriceLen == 2

PriceChars == {"0", "1", "5", ",", "."}

Str_R100_00 == <<"R", "$", " ", "1", "0", "0", ",", "0", "0">>
Str_R75_00 == <<"R", "$", " ", "7", "5", ",", "0", "0">>
Str_R30_00 == <<"R", "$", " ", "3", "0", ",", "0", "0">>
Str_75_00 == <<"7", "5", ".", "0", "0">>
Str_R == <<"R", "$">>

PriceStrings ==
  UNION {[1..n -> PriceChars] : n \in 0..MaxPriceLen}
    \cup {Str_R0_00, Str_R100_00, Str_R75_00, Str_R30_00, Str_75_00, Str_R,
          Str_1_234_56}

PriceFields == {JSString(s) : s \in PriceStrings} \cup {Undefined}

Item(id, marca, valor, publico, pcd) ==
  [id |-> id, marca |-> marca, valor |-> valor,
   preco_publico |-> publico, preco_pcd |-> pcd]

DiscountItems ==
  {Item(JSString(<<"1">>), JSString(<<"a">>), Undefined, pub, pcd) :
     pub \in PriceFields, pcd \in PriceFields}

DiscountInit ==
  /\ NoPage
  /\ fn = "none"
  /\ input \in DiscountItems
  /\ output = NoValue

CallCalculateDesconto ==
  /\ fn = "none"
  /\ fn' = "calculateDesconto"
  /\ output' = calculateDesconto(input)
  /\ UNCHANGED input
  /\ UNCHANGED pagevars

CallCalculateDescontoPercentage ==
  /\ fn = "none"
  /\ fn' = "calculateDescontoPercentage"
  /\ output' = calculateDescontoPercentage(input)
  /\ UNCHANGED input
  /\ UNCHANGED pagevars

DiscountNext == CallCalculateDesconto \/ CallCalculateDescontoPercentage

SpecDiscount == DiscountInit /\ [][DiscountNext]_vars

(* ------------------------------- C3 ------------------------------------ *)

\* The public price of an item as the calculator parses it.
PublicPrice(carro) == cleanAndParseValue(OrElse(carro.preco_publico, JSString(Str_R0_00)))

PcdPrice(carro) == cleanAndParseValue(OrElse(carro.preco_pcd, JSString(Str_R0_00)))

NoPublicPrice(carro) == carro.preco_publico = Undefined \/ ~IsPositive(PublicPrice(carro))

\* C3 as stated: for every item whose preco_publico is absent or parses to a
\* value <= 0, the discount amount and the discount percentage are both 0,
\* whatever preco_pcd is.
C3_ZeroWithoutPublicPrice ==
  (fn \in {"calculateDesconto", "calculateDescontoPercentage"} /\ NoPublicPrice(input))
    => output = Zero

\* C3 as amended: for every item whose preco_publico is absent or parses to a
\* value <= 0, the discount percentage is 0 and the discount amount is minus
\* the parsed preco_pcd, hence 0 exactly when preco_pcd is absent or parses
\* to 0.
C3_Amended ==
  /\ (fn = "calculateDescontoPercentage" /\ NoPublicPrice(input)) => output = Zero
  /\ (fn = "calculateDesconto" /\ NoPublicPrice(input))
       => /\ output = Minus(Zero, PcdPrice(input))
          /\ (output = Zero) <=> IsZero(PcdPrice(input))

C3_Witness ==
  /\ fn = "calculateDesconto"
  /\ input.preco_publico = Undefined
  /\ input.preco_pcd = JSString(Str_R75_00)
  /\ output = JSNumber(-75, 0)

(* ------------------------------- C4 ------------------------------------ *)

\* C4: the discount percentage is a number, not a string: 0 when the parsed
\* public price is <= 0, otherwise (discount / public price) * 100 rounded to
\* two decimals; "R$ 100,00" and "R$ 75,00" give the number 25.
C4_PercentageIsNumber ==
  fn = "calculateDescontoPercentage" =>
    /\ output.t = "number"
    /\ ~IsPositive(PublicPrice(input)) => output = Zero
    /\ IsPositive(PublicPrice(input)) =>
         output = LET h == PercentHundredths(calculateDesconto(input), PublicPrice(input))
                  IN  JSNumber(IF calculateDesconto(input).m < 0 THEN -h ELSE h, 2)
    /\ (input.preco_publico = JSString(Str_R100_00)
          /\ input.preco_pcd = JSString(Str_R75_00)) => output = JSNumber(25, 0)

\* What the code returns on the example of C4: the text "25.00".
C4_CodeReturnsText ==
  (fn = "calculateDescontoPercentage"
     /\ input.preco_publico = JSString(Str_R100_00)
     /\ input.preco_pcd = JSString(Str_R75_00))
    => output = JSString(<<"2", "5", ".", "0", "0">>)

(* ----------------------- inputs of the catalog sorter ------------------ *)

MaxItems == 3

Str_R30_00b == <<"R", "$", "3", "0", ",", "0", "0">>

Alfa == <<"A", "l", "f", "a">>
Alamo == <<"A'", "l", "a", "m", "o">>
Zeta == <<"Z", "e", "t", "a">>

\* Catalog records.  ItemB ties with ItemA on the PCD price and on the
\* discount through a differently written price; ItemC has neither valor nor
\* preco_publico; ItemD has no marca, no preco_pcd and a valor without digits;
\* ItemE repeats the id of ItemB and ties with ItemC on the PCD price.
ItemA == Item(JSString(<<"1">>), JSString(Alfa), JSString(Str_R75_00),
              JSString(Str_R100_00), JSString(Str_R75_00))
ItemB == Item(JSString(<<"2">>), JSString(Zeta), JSString(Str_R75_00),
              JSString(Str_R100_00), JSString(Str_75_00))
ItemC == Item(JSString(<<"3">>), JSString(Alamo), Undefined,
              Undefined, JSString(Str_R30_00))
ItemD == Item(JSString(<<"4">>), Undefined, JSString(Str_R),
              JSString(Str_R30_00), Undefined)
ItemE == Item(JSString(<<"2">>), JSString(Alfa), JSString(Str_R30_00),
              JSString(Str_R75_00), JSString(Str_R30_00b))

Items == {ItemA, ItemB, ItemC, ItemD, ItemE}

Catalogs == UNION {[1..n -> Items] : n \in 0..MaxItems}

SortOptions == {"valor_asc", "marca_asc", "desconto_desc", "default", "outro"}

NoResult == [threw |-> FALSE, perm |-> <<>>, ret |-> <<>>, data |-> <<>>, same |-> FALSE]

SortInit ==
  /\ NoPage
  /\ fn = "none"
  /\ input \in {[data |-> d, sortOption |-> o] : d \in Catalogs, o \in SortOptions}
  /\ output = NoResult

CallSortImoveis ==
  /\ fn = "none"
  /\ fn' = "sortImoveis"
  /\ output' \in sortImoveis(input.data, input.sortOption)
  /\ UNCHANGED input
  /\ UNCHANGED pagevars

CallImoveisSortImoveis ==
  /\ fn = "none"
  /\ fn' = "imoveisSortImoveis"
  /\ output' \in imoveisSortImoveis(input.data, input.sortOption)
  /\ UNCHANGED input
  /\ UNCHANGED pagevars

SortNext == CallSortImoveis \/ CallImoveisSortImoveis

SpecSort == SortInit /\ [][SortNext]_vars

(* ------------------------------- C6 ------------------------------------ *)

IsPermutationOf(data, r) ==
  /\ ~r.threw
  /\ r.perm \in IndexPermutations(Len(data))
  /\ r.ret = [k \in 1..Len(data) |-> data[r.perm[k]]]

\* v <= w on numbers (false when either is NaN or not a number).
LessOrEqual(v, w) == v.t = "number" /\ w.t = "number" /\ ~v.nan /\ ~w.nan /\ ~IsPositive(Minus(v, w))

\* The returned array is non-decreasing in Key and elements of equal Key keep
\* their input order.
StablyAscending(data, r, Key(_)) ==
  \A k, l \in 1..Len(r.perm) :
    k < l => /\ LessOrEqual(Key(r.ret[k]), Key(r.ret[l]))
             /\ Key(r.ret[k]) = Key(r.ret[l]) => r.perm[k] < r.perm[l]

StablyDescending(data, r, Key(_)) ==
  \A k, l \in 1..Len(r.perm) :
    k < l => /\ LessOrEqual(Key(r.ret[l]), Key(r.ret[k]))
             /\ Key(r.ret[k]) = Key(r.ret[l]) => r.perm[k] < r.perm[l]

CarrosPrice(a) == cleanAndParseValue(a.preco_pcd)

ImoveisPrice(a) == imoveisCleanAndParseValue(a.valor)

\* C6: sort(items, "valor_asc") returns a permutation of its input that is
\* non-decreasing in the parsed primary price (preco_pcd in the discount
\* catalog, valor in the single-price catalog), equal prices keeping their
\* input order, also when the price field of an item is absent or unparseable.
C6_ValorAscStable ==
  /\ (fn = "sortImoveis" /\ input.sortOption = "valor_asc")
       => /\ IsPermutationOf(input.data, output)
          /\ StablyAscending(input.data, output, CarrosPrice)
  /\ (fn = "imoveisSortImoveis" /\ input.sortOption = "valor_asc")
       => /\ IsPermutationOf(input.data, output)
          /\ StablyAscending(input.data, output, ImoveisPrice)

\* The part of C6 that the discount catalog script does satisfy.
C6_CarrosValorAscStable ==
  (fn = "sortImoveis" /\ input.sortOption = "valor_asc")
    => /\ IsPermutationOf(input.data, output)
       /\ StablyAscending(input.data, output, CarrosPrice)

(* ------------------------------- C7 ------------------------------------ *)

\* C7: sort(items, "desconto_desc") returns a permutation of its input that
\* is non-increasing in the discount amount (parsed preco_publico minus parsed
\* preco_pcd, a missing field counting as 0), equal discounts keeping their
\* input order.
C7_DescontoDescStable ==
  (fn = "sortImoveis" /\ input.sortOption = "desconto_desc")
    => /\ IsPermutationOf(input.data, output)
       /\ StablyDescending(input.data, output, calculateDesconto)

C7_Witness ==
  /\ fn = "sortImoveis"
  /\ input.sortOption = "desconto_desc"
  /\ input.data = <<ItemC, ItemB, ItemA>>
  /\ output.ret = <<ItemB, ItemA, ItemC>>

(* ------------------------------ rendering ----------------------------- *)

Node(tag, marca, items, discount) ==
  [tag |-> tag, marca |-> marca, items |-> items, discount |-> discount]

\* The nodes that the forEach loop of renderImoveis appends: before a card, a
\* brand title and a separator line when the list is sorted by brand and the
\* brand differs from the one of the preceding card (null before the first);
\* the card carries the discount block only when byDesconto.  The texts of a
\* card (title, prices, formatted discount) are not part of the model.
RenderNodes(list, byMarca, byDesconto) ==
  LET lastMarca(k) == IF k = 1 THEN Null ELSE list[k - 1].marca
      header(k) ==
        IF byMarca /\ list[k].marca # lastMarca(k)
        THEN <<Node("h2", list[k].marca, <<>>, FALSE), Node("hr", Null, <<>>, FALSE)>>
        ELSE <<>>
      upTo[k \in 0..Len(list)] ==
        IF k = 0 THEN <<>>
        ELSE upTo[k - 1] \o header(k) \o <<Node("card", list[k].marca, <<list[k]>>, byDesconto)>>
  IN  upTo[Len(list)]

\* carros.js renderImoveis: the new content of the container.
renderImoveis(carros, currentSortOption) ==
  RenderNodes(carros, currentSortOption = "marca_asc", currentSortOption = "desconto_desc")

\* imoveis.js renderImoveis: the new content of the container.
imoveisRenderImoveis(imoveis, currentSortOption) ==
  RenderNodes(imoveis, currentSortOption = "marca_asc", FALSE)

\* The catalog records shown by the cards of the container, in order.
RECURSIVE Cards(_)
Cards(nodes) ==
  IF nodes = <<>> THEN <<>>
  ELSE (IF Head(nodes).tag = "card" THEN Head(nodes).items ELSE <<>>) \o Cards(Tail(nodes))

\* sortImoveis and renderImoveis of the script that the page runs.
PageSort(data, option) ==
  IF page = "carros" THEN sortImoveis(data, option) ELSE imoveisSortImoveis(data, option)

PageRender(list, option) ==
  IF page = "carros" THEN renderImoveis(list, option) ELSE imoveisRenderImoveis(list, option)

(* ------------------- sorting and rendering a catalog ------------------ *)

\* A record whose "marca" is the JSON value null.
ItemF == Item(JSString(<<"5">>), Null, JSString(Str_R30_00),
              JSString(Str_R75_00), JSString(Str_R30_00))

RenderItems == Items \cup {ItemF}

RenderCatalogs == UNION {[1..n -> RenderItems] : n \in 0..MaxItems}

NoRender == [threw |-> FALSE, list |-> <<>>, nodes |-> <<>>]

RenderInit ==
  /\ NoPage
  /\ fn = "none"
  /\ input \in {[data |-> d, sortOption |-> o] : d \in RenderCatalogs, o \in SortOptions}
  /\ output = NoRender

\* renderImoveis(data, sortOption) on a list in the order it has.
CallRenderImoveis ==
  /\ fn = "none"
  /\ fn' = "renderImoveis"
  /\ output' = [threw |-> FALSE, list |-> input.data,
                nodes |-> renderImoveis(input.data, input.sortOption)]
  /\ UNCHANGED input
  /\ UNCHANGED pagevars

\* renderImoveis(sortImoveis(data, sortOption), sortOption), as the page calls
\* them; an exception of the sort leaves nothing rendered.
CallSortAndRender ==
  /\ fn = "none"
  /\ fn' = "sortAndRender"
  /\ \E r \in sortImoveis(input.data, input.sortOption) :
       output' = [threw |-> r.threw, list |-> r.ret,
                  nodes |-> IF r.threw THEN <<>>
                            ELSE renderImoveis(r.ret, input.sortOption)]
  /\ UNCHANGED input
  /\ UNCHANGED pagevars

RenderNext == CallRenderImoveis \/ CallSortAndRender

SpecRender == RenderInit /\ [][RenderNext]_vars

\* The place of the k-th card among the nodes.
CardPos(nodes, k) ==
  CHOOSE p \in 1..Len(nodes) :
    /\ nodes[p].tag = "card"
    /\ Cardinality({q \in 1..p : nodes[q].tag = "card"}) = k

\* A brand title and its separator line stand right before the k-th card.
HeaderBefore(nodes, k) ==
  LET p == CardPos(nodes, k)
  IN  /\ p >= 3
      /\ nodes[p - 2].tag = "h2"
      /\ nodes[p - 2].marca = nodes[p].marca
      /\ nodes[p - 1].tag = "hr"

Headers(nodes) == {p \in 1..Len(nodes) : nodes[p].tag = "h2"}

Brands(list) == {list[k].marca : k \in 1..Len(list)}

Contiguous(list) ==
  \A i, j, k \in 1..Len(list) :
    (i < j /\ j < k /\ list[i].marca = list[k].marca) => list[j].marca = list[i].marca

Rendered == fn \in {"renderImoveis", "sortAndRender"} /\ ~output.threw

\* The walk of the renderer in marca_asc mode: every item has its card, in
\* order; a header stands before a card exactly when the card is the first or
\* its brand differs from that of the preceding item; no other header exists.
HeadersAtBrandChanges ==
  LET list == output.list
      nodes == output.nodes
      opens == {k \in 1..Len(list) : k = 1 \/ list[k].marca # list[k - 1].marca}
  IN  /\ Cards(nodes) = list
      /\ \A k \in 1..Len(list) : HeaderBefore(nodes, k) <=> k \in opens
      /\ Cardinality(Headers(nodes)) = Cardinality(opens)
      /\ Len(nodes) = Len(list) + 2 * Cardinality(opens)

\* C11: in marca_asc mode the renderer emits a brand-group header exactly
\* before each item whose brand differs from that of the immediately
\* preceding item, the first item always opening a group; for the output of
\* sortImoveis(items, "marca_asc") the number of headers equals the number of
\* distinct brands and the items of each brand form one contiguous group; in
\* every other mode no header is emitted.
C11_BrandGroupHeaders ==
  /\ (Rendered /\ input.sortOption = "marca_asc") => HeadersAtBrandChanges
  /\ (Rendered /\ fn = "sortAndRender" /\ input.sortOption = "marca_asc")
       => /\ Cardinality(Headers(output.nodes)) = Cardinality(Brands(output.list))
          /\ Contiguous(output.list)
  /\ (Rendered /\ input.sortOption # "marca_asc")
       => /\ Cards(output.nodes) = output.list
          /\ \A p \in 1..Len(output.nodes) : output.nodes[p].tag = "card"

(* ------------------------------- the pages ---------------------------- *)

MaxCatalog == 2

\* The arrays that carros.json or imoveis.json may hold.
PageCatalogs == UNION {[1..n -> Items] : n \in 0..MaxCatalog}

Responses ==
  {[ok |-> k, wellFormed |-> TRUE, value |-> c] : k \in BOOLEAN, c \in PageCatalogs}
    \cup {[ok |-> k, wellFormed |-> FALSE, value |-> <<>>] : k \in BOOLEAN}

UrlIds == {Null, JSString(<<>>), JSString(<<"1">>), JSString(<<"2">>), JSString(<<"9">>)}

Init ==
  /\ fn = "none"
  /\ input = <<>>
  /\ output = <<>>
  /\ \/ \E p \in {"carros", "imoveis"}, c \in BOOLEAN, v \in SortOptions :
          PageStart(p, [sortSelect |-> TRUE, container |-> c], v, Null)
     \/ \E p \in {"carros", "imoveis", "lista"}, c \in BOOLEAN :
          PageStart(p, [sortSelect |-> FALSE, container |-> c], "default", Null)
     \/ \E id \in UrlIds :
          PageStart("detalhe", [sortSelect |-> FALSE, container |-> TRUE], "default", id)

\* The DOMContentLoaded handler with the "change" handler registered at once
\* instead of in the continuation of the fetch.
DOMContentLoadedEarlyListener ==
  /\ pc = "start"
  /\ IF page = "detalhe" /\ ~Truthy(urlId)
     THEN /\ log' = log \cup {"id"}
          /\ detail' = [detail EXCEPT !.message = TRUE]
          /\ pc' = "idle"
          /\ UNCHANGED <<fetches, listener>>
     ELSE /\ fetches' = fetches + 1
          /\ pc' = "fetch"
          /\ listener' = dom.sortSelect
          /\ UNCHANGED <<log, detail>>
  /\ UNCHANGED <<funvars, page, dom, selectValue, urlId, net, res, imoveisData,
                 writes, container, uncaught, changed>>

\* The DOMContentLoaded handler: the detail page without an id reports "not
\* found" and stops; otherwise the fetch is started.
DOMContentLoaded ==
  /\ pc = "start"
  /\ IF page = "detalhe" /\ ~Truthy(urlId)
     THEN /\ log' = log \cup {"id"}
          /\ detail' = [detail EXCEPT !.message = TRUE]
          /\ pc' = "idle"
          /\ UNCHANGED fetches
     ELSE /\ fetches' = fetches + 1
          /\ pc' = "fetch"
          /\ UNCHANGED <<log, detail>>
  /\ UNCHANGED <<funvars, page, dom, selectValue, urlId, net, res, imoveisData,
                 writes, listener, container, uncaught, changed>>

\* The network answers: any status, any body.
FetchResolve ==
  /\ pc = "fetch"
  /\ \E r \in Responses : res' = r
  /\ net' = "response"
  /\ pc' = "then1"
  /\ UNCHANGED <<funvars, page, dom, selectValue, urlId, imoveisData, writes,
                 fetches, listener, container, detail, log, uncaught, changed>>

\* The network fails: the fetch promise rejects.
FetchReject ==
  /\ pc = "fetch"
  /\ net' = "error"
  /\ pc' = "catch"
  /\ UNCHANGED <<funvars, page, dom, selectValue, urlId, res, imoveisData, writes,
                 fetches, listener, container, detail, log, uncaught, changed>>

\* The first continuation: the listing scripts throw on a non-success
\* status, the detail script calls res.json() whatever the status.
Then1 ==
  /\ pc = "then1"
  /\ pc' = IF page # "detalhe" /\ ~res.ok THEN "catch" ELSE "json"
  /\ UNCHANGED <<funvars, page, dom, selectValue, urlId, net, res, imoveisData,
                 writes, fetches, listener, container, detail, log, uncaught, changed>>

\* res.json() settles: fulfilled with the parsed array, rejected on a
\* malformed body.
JsonSettle ==
  /\ pc = "json"
  /\ pc' = IF res.wellFormed THEN "then2" ELSE "catch"
  /\ UNCHANGED <<funvars, page, dom, selectValue, urlId, net, res, imoveisData,
                 writes, fetches, listener, container, detail, log, uncaught, changed>>

\* carros.js and imoveis.js, the continuation that receives the catalog:
\* store it, sort by the initial option, render, register the handler.
Then2Listing ==
  /\ pc = "then2"
  /\ page \in {"carros", "imoveis"}
  /\ writes' = writes + 1
  /\ LET initialSortOption == IF dom.sortSelect THEN selectValue ELSE "default"
     IN  \E r \in PageSort(res.value, initialSortOption) :
           /\ imoveisData' = r.data
           /\ IF r.threw
              THEN /\ pc' = "catch"
                   /\ UNCHANGED <<container, log, listener>>
              ELSE /\ pc' = "idle"
                   /\ IF dom.container
                      THEN /\ container' = PageRender(r.ret, initialSortOption)
                           /\ UNCHANGED log
                      ELSE /\ log' = log \cup {"container"}
                           /\ UNCHANGED container
                   /\ listener' = dom.sortSelect
  /\ UNCHANGED <<funvars, page, dom, selectValue, urlId, net, res, fetches,
                 detail, uncaught, changed>>

\* The plain listing script: append one card per record.
Then2Lista ==
  /\ pc = "then2"
  /\ page = "lista"
  /\ pc' = "idle"
  /\ IF dom.container
     THEN /\ container' = container \o RenderNodes(res.value, FALSE, FALSE)
          /\ UNCHANGED log
     ELSE /\ log' = log \cup {"container"}
          /\ UNCHANGED container
  /\ UNCHANGED <<funvars, page, dom, selectValue, urlId, net, res, imoveisData,
                 writes, fetches, listener, detail, uncaught, changed>>

\* carros.find((item) => item.id === imovelId): the places of the matches.
Matches(carros, imovelId) == {i \in 1..Len(carros) : carros[i].id = imovelId}

Min(S) == CHOOSE x \in S : \A y \in S : x <= y

\* The detail continuation without the "if (!carro)" branch: reading a field
\* of undefined throws.
Then2DetalheNoCheck ==
  /\ pc = "then2"
  /\ page = "detalhe"
  /\ IF Matches(res.value, urlId) = {}
     THEN /\ pc' = "catch"
          /\ UNCHANGED <<log, detail>>
     ELSE /\ detail' = [detail EXCEPT
                          !.fields = <<res.value[Min(Matches(res.value, urlId))]>>]
          /\ pc' = "idle"
          /\ UNCHANGED log
  /\ UNCHANGED <<funvars, page, dom, selectValue, urlId, net, res, imoveisData,
                 writes, fetches, listener, container, uncaught, changed>>

\* The detail continuation: find the record by id; report "not found" when
\* there is none, else fill the detail fields from it.  The record is taken
\* to have its imagens and descricao_longa arrays and the document its
\* detail elements.
Then2Detalhe ==
  /\ pc = "then2"
  /\ page = "detalhe"
  /\ pc' = "idle"
  /\ IF Matches(res.value, urlId) = {}
     THEN /\ log' = log \cup {"lookup"}
          /\ detail' = [detail EXCEPT !.message = TRUE]
     ELSE /\ detail' = [detail EXCEPT
                          !.fields = <<res.value[Min(Matches(res.value, urlId))]>>]
          /\ UNCHANGED log
  /\ UNCHANGED <<funvars, page, dom, selectValue, urlId, net, res, imoveisData,
                 writes, fetches, listener, container, uncaught, changed>>

\* The catch continuation: log the failure.
Catch ==
  /\ pc = "catch"
  /\ log' = log \cup {"fetch"}
  /\ pc' = "idle"
  /\ UNCHANGED <<funvars, page, dom, selectValue, urlId, net, res, imoveisData,
                 writes, fetches, listener, container, detail, uncaught, changed>>

\* The "change" handler of #sort-select: the user picks another option; sort
\* the stored catalog by it and render.  An exception of the sort escapes
\* the handler.
SortChange ==
  /\ listener
  /\ changed' = TRUE
  /\ \E selectedOption \in SortOptions \ {selectValue} :
       /\ selectValue' = selectedOption
       /\ \E r \in PageSort(imoveisData, selectedOption) :
            /\ imoveisData' = r.data
            /\ IF r.threw
               THEN /\ uncaught' = TRUE
                    /\ UNCHANGED <<container, log>>
               ELSE /\ UNCHANGED uncaught
                    /\ IF dom.container
                       THEN /\ container' = PageRender(r.ret, selectedOption)
                            /\ UNCHANGED log
                       ELSE /\ log' = log \cup {"container"}
                            /\ UNCHANGED container
  /\ UNCHANGED <<funvars, page, pc, dom, urlId, net, res, writes, fetches,
                 listener, detail>>

Next ==
  \/ DOMContentLoaded
  \/ FetchResolve
  \/ FetchReject
  \/ Then1
  \/ JsonSettle
  \/ Then2Listing
  \/ Then2Lista
  \/ Then2Detalhe
  \/ Catch
  \/ SortChange

Spec == Init /\ [][Next]_vars

(* ------------------------------- C5 ------------------------------------ *)

Listing == page \in {"carros", "imoveis"}

\* C5: sorting never changes the page-held catalog: once fetched, and after
\* any sequence of sort selections of any mode, imoveisData holds the fetched
\* records in the fetched order, so that the selection of "default" (or of an
\* unknown mode) shows the original order.
C5_SortKeepsCatalog ==
  /\ (Listing /\ writes = 1) => imoveisData = res.value
  /\ (Listing /\ listener /\ dom.container /\ selectValue \in {"default", "outro"})
       => Cards(container) = res.value

C5_Witness ==
  /\ page = "carros"
  /\ changed
  /\ selectValue = "default"
  /\ res.value = <<ItemA, ItemC>>
  /\ imoveisData = <<ItemA, ItemC>>
  /\ Cards(container) = <<ItemA, ItemC>>

(* ------------------------------- C8 ------------------------------------ *)

\* C8: the catalog is written once, on a successful fetch, the "change"
\* handler is registered only after that write, and so no sort triggered by a
\* change event reads the catalog before it is loaded and no two writes of
\* it occur.
C8_WrittenOnceBeforeListener ==
  /\ [](/\ writes <= 1
        /\ writes = 1 => (net = "response" /\ res.ok /\ res.wellFormed)
        /\ listener => (writes = 1 /\ imoveisData = res.value)
        /\ (Listing /\ pc = "idle" /\ net = "response" /\ res.ok /\ res.wellFormed)
             => writes = 1)
  /\ [][(selectValue' # selectValue \/ changed' # changed)
          => (listener /\ writes = 1 /\ writes' = 1 /\ imoveisData = res.value)]_vars

C8_Witness ==
  /\ page = "imoveis"
  /\ changed
  /\ listener
  /\ writes = 1
  /\ selectValue = "marca_asc"
  /\ imoveisData = <<ItemB, ItemA>>
  /\ Cards(container) = <<ItemA, ItemB>>

(* ------------------------------- C9 ------------------------------------ *)

\* The fetch failed: the network failed, the status is not a success, or
\* the body is not JSON.
FetchFailed == net = "error" \/ (net = "response" /\ (~res.ok \/ ~res.wellFormed))

\* C9: when the fetch fails, on the listing pages and on the detail page
\* alike, the failure is logged, nothing is rendered from the response, no
\* catalog state is used, the sort handler is not registered and the fetch
\* is not retried.
C9_FetchFailureIsTerminal ==
  FetchFailed =>
    /\ container = <<>>
    /\ detail = NoDetail
    /\ writes = 0
    /\ ~listener
    /\ fetches = 1
    /\ pc = "idle" => "fetch" \in log

\* The part of C9 that the listing pages do satisfy.
C9_ListingFetchFailure ==
  (FetchFailed /\ page # "detalhe") =>
    /\ container = <<>>
    /\ writes = 0
    /\ ~listener
    /\ fetches = 1
    /\ pc = "idle" => "fetch" \in log

(* ------------------------------- C10 ----------------------------------- *)

\* The detail page has run to its end on a fetched array (or without any
\* fetch when the id is missing).
DetailSettled ==
  /\ page = "detalhe"
  /\ pc = "idle"
  /\ Truthy(urlId) => (net = "response" /\ res.wellFormed)

HasId(carros, id) == \E i \in 1..Len(carros) : carros[i].id = id

\* C10: on the detail page, an id that is missing or matches no record of
\* the fetched array ends in the "not found" message with no detail field
\* filled, never in an uncaught exception or in nothing at all; an id that a
\* record of the array has ends with that record rendered (the first one
\* when several have it).
C10_DetailLookup ==
  /\ (DetailSettled /\ (~Truthy(urlId) \/ ~HasId(res.value, urlId)))
       => /\ detail.message
          /\ detail.fields = <<>>
          /\ log \cap {"id", "lookup"} # {}
          /\ ~uncaught
  /\ (DetailSettled /\ Truthy(urlId) /\ HasId(res.value, urlId))
       => /\ ~detail.message
          /\ Len(detail.fields) = 1
          /\ detail.fields[1].id = urlId
          /\ \E i \in 1..Len(res.value) :
               /\ res.value[i] = detail.fields[1]
               /\ \A j \in 1..(i - 1) : res.value[j].id # urlId
  /\ (page = "detalhe" /\ ~Truthy(urlId)) => fetches = 0

C10_Witness ==
  /\ DetailSettled
  /\ urlId = JSString(<<"9">>)
  /\ res.value = <<ItemA, ItemB>>
  /\ detail.message
  /\ detail.fields = <<>>

====
